---- MODULE Spec2Model ----
(***************************************************************************)
(* Model of Turso3D's software occlusion buffer                            *)
(* (src/Turso3D/Renderer/OcclusionBuffer.cpp): sizing, batch ingestion,    *)
(* the three-phase task pipeline gated by atomic counters, the depth       *)
(* hierarchy and the visibility query.                                     *)
(***************************************************************************)
EXTENDS Integers, Sequences, FiniteSets, TLC

(***************************************************************************)
(* Constants of OcclusionBuffer.h and helpers of Math.h. Neither header is *)
(* among the source files; the values are those the .cpp relies on.        *)
(***************************************************************************)
OCCLUSION_MIN_SIZE == 8
OCCLUSION_BUFFER_SLICES == 8
OCCLUSION_Z_SCALE == 16777216

\* Content of memory obtained from new[] and never written (line 81, 91).
Uninit == -1

Min(a, b) == IF a < b THEN a ELSE b
Max(a, b) == IF a > b THEN a ELSE b

\* Math.h IsPowerOfTwo(unsigned): zero counts as a power of two.
IsPowerOfTwo(value) == value = 0 \/ \E k \in 0..30 : value = 2^k

(***************************************************************************)
(* Bounds of the model.                                                    *)
(***************************************************************************)
MaxSmallDim == 4
MaxBatches == 2      \* batches added between two Reset() calls
MaxRuns == 2         \* pipeline runs started between two Reset() calls
MaxClipTriangles == 2 \* candidate triangles handed to one ClipVertices pass
NumWorkers == 1      \* worker threads of the WorkQueue, besides the caller's thread

VARIABLES
    width, height,            \* OcclusionBuffer::width, height
    sliceHeight, activeSlices,
    startY, endY,             \* rasterizeTrianglesTasks[i]->startY / endY
    fullBuffer,               \* the allocation; <<>> while buffer == nullptr
    mipBuffers,               \* sequence of DepthValue arrays
    lastOp, lastArgs, lastRet,\* the caller's last call, its arguments and result
    numTriangleBatches, numReadyMipBuffers,
    numPendingGenerateTasks, numPendingRasterizeTasks,
    generateTrianglesTasks,   \* sequence of [batch, triangles, triangleIndices]
    workQueue,                \* tasks queued and not yet taken, oldest first
    running,                  \* per thread, the task it executes and where it is
    callerPc,                 \* "idle", or where the caller is inside Complete() or Reset()
    runs,                     \* pipeline runs started since the last Reset()
    runLog,                   \* per run tag: started, and how often each phase was queued
    garbage,                  \* what a read of indeterminate memory yields
    fault                     \* a write went outside its allocation

sizeVars == <<width, height, sliceHeight, activeSlices, startY, endY, fullBuffer, mipBuffers>>
callVars == <<lastOp, lastArgs, lastRet>>
frameVars == <<numTriangleBatches, numReadyMipBuffers, numPendingGenerateTasks,
               numPendingRasterizeTasks, generateTrianglesTasks, runs, runLog>>
schedVars == <<workQueue, running, callerPc>>
memVars == <<garbage, fault>>
vars == <<sizeVars, callVars, frameVars, schedVars, memVars>>

Slices == 0..(OCCLUSION_BUFFER_SLICES - 1)

\* The threads that execute tasks: the workers, and the caller's own thread
\* while it is inside WorkQueue::TryComplete().
MainThread == 0
Threads == {MainThread} \cup (1..NumWorkers)

\* A thread's task: which one, where in its code, and the locals of
\* BuildDepthHierarchyWork (i, mipWidth, mipHeight).
NoTask == [kind |-> "none", idx |-> 0, run |-> 0, pc |-> "none",
           level |-> 0, mipWidth |-> 0, mipHeight |-> 0]
StartedTask(task, pc) == [kind |-> task.kind, idx |-> task.idx, run |-> task.run, pc |-> pc,
                          level |-> 0, mipWidth |-> 0, mipHeight |-> 0]

\* Bookkeeping for the properties, not program state: every task carries the
\* tag of the pipeline run it belongs to, and runLog counts per tag how often
\* the raster tasks and the hierarchy task were queued. A run takes the
\* smallest tag no unfinished generate or raster task still carries.
RunTags == 0..NumWorkers
NoRun == [started |-> FALSE, rasterQueued |-> 0, hierQueued |-> 0]
PhaseTasks(tag) ==
    {k \in 1..Len(workQueue) : workQueue[k].run = tag /\ workQueue[k].kind \in {"gen", "raster"}}
PhaseThreads(tag) ==
    {t \in Threads : running[t].run = tag /\ running[t].kind \in {"gen", "raster"}}
TagInUse(tag) == PhaseTasks(tag) # {} \/ PhaseThreads(tag) # {}
FreeTag == CHOOSE tag \in RunTags : ~TagInUse(tag) /\ \A other \in 0..(tag - 1) : TagInUse(other)

\* buffer = fullBuffer + width + 1; nullptr before the first allocation.
BufferIsNull == fullBuffer = <<>>

\* IsCompleted(), lines 188-191.
IsCompleted == numPendingRasterizeTasks = 0

\* The caller is single-threaded: it makes a call only when it is not inside
\* another one, and it resizes only when IsCompleted() tells it the pipeline
\* is idle (section 3 of the specification: allocations are reused while a
\* frame is in flight).
CallerIdle == callerPc = "idle" /\ ~fault
CallerMayResize == CallerIdle /\ IsCompleted

(***************************************************************************)
(* SetSize, lines 43-101.                                                  *)
(***************************************************************************)
\* Line 46-47: the member height, not the argument, is made even.
EvenedHeight == IF height % 2 = 1 THEN height + 1 ELSE height

\* Lines 49-61: which return path a call takes.
SetSizeOutcome(newWidth, newHeight) ==
    IF newWidth = width /\ newHeight = EvenedHeight THEN "same"
    ELSE IF newWidth <= 0 \/ newHeight <= 0 THEN "nonpositive"
    ELSE IF ~IsPowerOfTwo(width) THEN "notpow2"
    ELSE "resize"

\* SliceHeightFor with the division rounded up.
SliceHeightCeil(newHeight) ==
    ((newHeight + OCCLUSION_BUFFER_SLICES - 1) \div OCCLUSION_BUFFER_SLICES) + 1

\* Line 65.
SliceHeightFor(newHeight) == (newHeight \div OCCLUSION_BUFFER_SLICES) + 1

\* Lines 68-78: the loop stops at the first slice that starts at or below the end.
ActiveSlicesFor(newHeight) ==
    Cardinality({i \in Slices : \A j \in 0..i : j * SliceHeightFor(newHeight) < newHeight})

\* MipSizes with the halving rounded down instead of up.
RECURSIVE MipSizesFloor(_, _)
MipSizesFloor(w, h) ==
    LET nw == w \div 2
        nh == h \div 2
    IN  IF nw <= OCCLUSION_MIN_SIZE /\ nh <= OCCLUSION_MIN_SIZE
        THEN << <<nw, nh>> >>
        ELSE << <<nw, nh>> >> \o MipSizesFloor(nw, nh)

\* Lines 86-95: halve, allocate, then test (a do-while).
RECURSIVE MipSizes(_, _)
MipSizes(w, h) ==
    LET nw == (w + 1) \div 2
        nh == (h + 1) \div 2
    IN  IF nw <= OCCLUSION_MIN_SIZE /\ nh <= OCCLUSION_MIN_SIZE
        THEN << <<nw, nh>> >>
        ELSE << <<nw, nh>> >> \o MipSizes(nw, nh)

UninitDepthValue == [min |-> Uninit, max |-> Uninit]

NewMipBuffers(w, h) ==
    LET sizes == MipSizes(w, h)
    IN  [i \in 1..Len(sizes) |-> [k \in 1..(sizes[i][1] * sizes[i][2]) |-> UninitDepthValue]]

\* Line 81.
NewFullBuffer(w, h) == [k \in 1..(w * (h + 2) + 2) |-> Uninit]

\* SliceEndY reaching one slice further down.
SliceEndYNextSlice(i, newHeight) == Min((i + 2) * SliceHeightFor(newHeight), newHeight)

\* Line 73.
SliceEndY(i, newHeight) == Min((i + 1) * SliceHeightFor(newHeight), newHeight)

SetSize(newWidth, newHeight) ==
    LET outcome == SetSizeOutcome(newWidth, newHeight)
    IN  /\ CallerMayResize
        /\ UNCHANGED <<frameVars, schedVars, memVars>>
        /\ lastOp' = "SetSize"
        /\ lastArgs' = <<newWidth, newHeight>>
        /\ lastRet' = (outcome \in {"same", "resize"})
        /\ IF outcome = "resize"
           THEN /\ width' = newWidth
                /\ height' = newHeight
                /\ sliceHeight' = SliceHeightFor(newHeight)
                /\ activeSlices' = ActiveSlicesFor(newHeight)
                /\ startY' = [i \in Slices |->
                                IF i < ActiveSlicesFor(newHeight)
                                THEN i * SliceHeightFor(newHeight) ELSE startY[i]]
                /\ endY' = [i \in Slices |->
                                IF i < ActiveSlicesFor(newHeight)
                                THEN SliceEndY(i, newHeight)
                                ELSE endY[i]]
                /\ fullBuffer' = NewFullBuffer(newWidth, newHeight)
                /\ mipBuffers' = NewMipBuffers(newWidth, newHeight)
           ELSE /\ height' = EvenedHeight
                /\ UNCHANGED <<width, sliceHeight, activeSlices, startY, endY,
                               fullBuffer, mipBuffers>>

\* Where the caller is once thread t has finished a task: TryComplete()
\* returns into the loop of Complete(), line 184.
AfterTask(t) == IF t = MainThread THEN "check" ELSE callerPc

(***************************************************************************)
(* Memory. buffer points width + 1 ints into fullBuffer (line 82); an      *)
(* index is relative to buffer, as in the code. A read of a cell that was  *)
(* never written, or outside the allocation, yields an indeterminate       *)
(* value; a write outside the allocation is a fault.                       *)
(***************************************************************************)
BufferPos(i) == i + width + 2

Determinate(v) == IF v = Uninit THEN garbage ELSE v

BufferRead(i) ==
    IF BufferPos(i) \in 1..Len(fullBuffer) THEN Determinate(fullBuffer[BufferPos(i)]) ELSE garbage

MipRead(level, i) ==
    IF level \in 1..Len(mipBuffers) /\ (i + 1) \in 1..Len(mipBuffers[level])
    THEN [min |-> Determinate(mipBuffers[level][i + 1].min),
          max |-> Determinate(mipBuffers[level][i + 1].max)]
    ELSE [min |-> garbage, max |-> garbage]

SetMin(S) == CHOOSE m \in S : \A v \in S : m <= v
SetMax(S) == CHOOSE m \in S : \A v \in S : m >= v

(***************************************************************************)
(* BuildDepthHierarchyWork, lines 688-780.                                 *)
(***************************************************************************)
\* Level0Cell reading the upper row only.
Level0CellUpperOnly(x, y) ==
    LET src == (y * 2) * width + 2 * x
    IN  [min |-> Min(BufferRead(src), BufferRead(src + 1)),
         max |-> Max(BufferRead(src), BufferRead(src + 1))]

\* Lines 698-729: one cell of the first level, from the pixel-level data.
Level0Cell(x, y) ==
    LET src == (y * 2) * width + 2 * x
        upper == {BufferRead(src), BufferRead(src + 1)}
        lower == IF y * 2 + 1 < height
                 THEN {BufferRead(src + width), BufferRead(src + width + 1)}
                 ELSE {}
    IN  [min |-> SetMin(upper \cup lower), max |-> SetMax(upper \cup lower)]

\* Lines 744-775: one cell of a further level, from the level before it
\* (prevLevel is the 1-based position of that level in mipBuffers).
LevelCell(prevLevel, prevWidth, prevHeight, x, y) ==
    LET src == (y * 2) * prevWidth + 2 * x
        upper == {MipRead(prevLevel, src), MipRead(prevLevel, src + 1)}
        lower == IF y * 2 + 1 < prevHeight
                 THEN {MipRead(prevLevel, src + prevWidth), MipRead(prevLevel, src + prevWidth + 1)}
                 ELSE {}
    IN  [min |-> SetMin({c.min : c \in upper \cup lower}),
         max |-> SetMax({c.max : c \in upper \cup lower})]

\* Lines 696-730: the array of the first level after the loops over y and
\* dest wrote mipWidth x mipHeight cells into it; cells past the end of the
\* array are not stored.
WrittenLevel0(old, mipWidth, mipHeight) ==
    [k \in 1..Len(old) |->
        IF k <= mipWidth * mipHeight
        THEN Level0Cell((k - 1) % mipWidth, (k - 1) \div mipWidth)
        ELSE old[k]]

\* Lines 742-776: the same for a further level.
WrittenLevel(old, prevLevel, prevWidth, prevHeight, mipWidth, mipHeight) ==
    [k \in 1..Len(old) |->
        IF k <= mipWidth * mipHeight
        THEN LevelCell(prevLevel, prevWidth, prevHeight, (k - 1) % mipWidth, (k - 1) \div mipWidth)
        ELSE old[k]]

\* Lines 692-732, executed by thread t.
BuildLevel0(t) ==
    LET mipWidth == (width + 1) \div 2
        mipHeight == (height + 1) \div 2
    IN  /\ running[t].kind = "hier"
        /\ running[t].pc = "level0"
        /\ ~fault
        /\ IF Len(mipBuffers) = 0
           THEN /\ fault' = TRUE
                /\ UNCHANGED mipBuffers
           ELSE /\ fault' = (mipWidth * mipHeight > Len(mipBuffers[1]))
                /\ mipBuffers' = [mipBuffers EXCEPT
                        ![1] = WrittenLevel0(mipBuffers[1], mipWidth, mipHeight)]
        /\ numReadyMipBuffers' = numReadyMipBuffers + 1
        /\ running' = [running EXCEPT ![t] =
                [@ EXCEPT !.pc = "levels", !.level = 1, !.mipWidth = mipWidth, !.mipHeight = mipHeight]]
        /\ UNCHANGED <<width, height, sliceHeight, activeSlices, startY, endY, fullBuffer>>
        /\ UNCHANGED <<callVars, numTriangleBatches, numPendingGenerateTasks,
                       numPendingRasterizeTasks, generateTrianglesTasks, runs, runLog>>
        /\ UNCHANGED <<workQueue, callerPc, garbage>>

\* Lines 735-779: one iteration of the loop over the further levels, or its
\* exit, executed by thread t.
BuildNextLevel(t) ==
    LET i == running[t].level
        prevWidth == running[t].mipWidth
        prevHeight == running[t].mipHeight
        mipWidth == (prevWidth + 1) \div 2
        mipHeight == (prevHeight + 1) \div 2
    IN  /\ running[t].kind = "hier"
        /\ running[t].pc = "levels"
        /\ ~fault
        /\ IF i < Len(mipBuffers)
           THEN /\ fault' = (mipWidth * mipHeight > Len(mipBuffers[i + 1]))
                /\ mipBuffers' = [mipBuffers EXCEPT
                        ![i + 1] = WrittenLevel(mipBuffers[i + 1], i, prevWidth, prevHeight, mipWidth, mipHeight)]
                /\ numReadyMipBuffers' = numReadyMipBuffers + 1
                /\ running' = [running EXCEPT ![t] =
                        [@ EXCEPT !.level = i + 1, !.mipWidth = mipWidth, !.mipHeight = mipHeight]]
           ELSE /\ running' = [running EXCEPT ![t] = NoTask]
                /\ UNCHANGED <<fault, mipBuffers, numReadyMipBuffers>>
        /\ callerPc' = IF i < Len(mipBuffers) THEN callerPc ELSE AfterTask(t)
        /\ UNCHANGED <<width, height, sliceHeight, activeSlices, startY, endY, fullBuffer>>
        /\ UNCHANGED <<callVars, numTriangleBatches, numPendingGenerateTasks,
                       numPendingRasterizeTasks, generateTrianglesTasks, runs, runLog>>
        /\ UNCHANGED <<workQueue, garbage>>

(***************************************************************************)
(* The WorkQueue (Thread/WorkQueue.h, not among the source files): tasks   *)
(* are taken oldest first by any thread that is free; the caller's thread  *)
(* takes one inside TryComplete().                                         *)
(***************************************************************************)
FirstPc(kind) == IF kind = "hier" THEN "level0" ELSE "work"

TakeTask(t) ==
    /\ ~fault
    /\ running[t] = NoTask
    /\ workQueue # <<>>
    /\ t = MainThread => callerPc = "try"
    /\ running' = [running EXCEPT ![t] = StartedTask(Head(workQueue), FirstPc(Head(workQueue).kind))]
    /\ workQueue' = Tail(workQueue)
    /\ callerPc' = IF t = MainThread THEN "run" ELSE callerPc
    /\ UNCHANGED <<sizeVars, callVars, frameVars, memVars>>

QueuedTask(kind, idx, run) == [kind |-> kind, idx |-> idx, run |-> run]

(***************************************************************************)
(* AddTriangle, lines 314-429. The transform, the clip against the frustum *)
(* and the facing test use Matrix4/Vector4 code that is not among the      *)
(* source files: a batch is given as the triangles that survive them, each *)
(* with the path it took (clipped or not) and its extent in pixels.        *)
(***************************************************************************)
ClampTo(v, hi) == Max(0, Min(v, hi))

\* ViewportTransform: a triangle inside the frustum lands inside the buffer.
Projected(tri) ==
    [tri EXCEPT !.minY = ClampTo(tri.minY, height), !.maxY = ClampTo(tri.maxY, height),
                !.x0 = ClampTo(tri.x0, width), !.x1 = ClampTo(tri.x1, width)]

\* Lines 370-372 (unclipped path) and 420-422 (clipped path).
InSlice(tri, i) ==
    IF ~tri.clipped
    THEN LET sliceStartY == i * sliceHeight
             sliceEndY == Min(height, sliceStartY + sliceHeight)
         IN  tri.minY < sliceEndY /\ tri.maxY > sliceStartY
    ELSE LET sY == i * sliceHeight
             eY == sY + sliceHeight
         IN  tri.minY < eY /\ tri.maxY >= sY

\* Lines 360-374 and 410-424: append the triangle, add its index to the slices.
AddTriangle(task, tri) ==
    LET idx == Len(task.triangles)
        projected == Projected(tri)
    IN  [task EXCEPT
            !.triangles = Append(@, projected),
            !.triangleIndices = [i \in Slices |->
                IF i < activeSlices /\ InSlice(projected, i) THEN Append(@[i], idx) ELSE @[i]]]

\* Lines 512-575: the loop over the triangles of the batch.
RECURSIVE AddBatchTriangles(_, _)
AddBatchTriangles(task, tris) ==
    IF tris = <<>> THEN task
    ELSE AddBatchTriangles(AddTriangle(task, Head(tris)), Tail(tris))

(***************************************************************************)
(* ClipVertices, lines 431-499: one pass of the candidate triangles        *)
(* against one plane. A vertex is represented by its distance to that      *)
(* plane (plane.DotProduct(vertex)), which is all the pass looks at.       *)
(* ClipEdge (OcclusionBuffer.h, not among the source files) yields the     *)
(* point of the edge that lies on the plane: distance 0.                   *)
(***************************************************************************)
ClipEdge(v0, v1, d0, d1) == 0

\* ClipBranch with the tests for two vertices behind made before the test
\* for all three.
ClipBranchPairsFirst(d0, d1, d2) ==
    IF d0 < 0 /\ d1 < 0 THEN "two01"
    ELSE IF d0 < 0 /\ d2 < 0 THEN "two02"
    ELSE IF d1 < 0 /\ d2 < 0 THEN "two12"
    ELSE IF d0 < 0 /\ d1 < 0 /\ d2 < 0 THEN "reject"
    ELSE IF d0 < 0 THEN "one0"
    ELSE IF d1 < 0 THEN "one1"
    ELSE IF d2 < 0 THEN "one2"
    ELSE "keep"

\* Lines 445-487: the branch taken for a live candidate.
ClipBranch(d0, d1, d2) ==
    IF d0 < 0 /\ d1 < 0 /\ d2 < 0 THEN "reject"
    ELSE IF d0 < 0 /\ d1 < 0 THEN "two01"
    ELSE IF d0 < 0 /\ d2 < 0 THEN "two02"
    ELSE IF d1 < 0 /\ d2 < 0 THEN "two12"
    ELSE IF d0 < 0 THEN "one0"
    ELSE IF d1 < 0 THEN "one1"
    ELSE IF d2 < 0 THEN "one2"
    ELSE "keep"

\* Lines 437-497 for candidate i (counted from 1); clip is the record of
\* vertices, clipTriangles and numClipTriangles.
ClipCandidate(clip, i) ==
    LET index == 3 * (i - 1) + 1
        v0 == clip.vertices[index]
        v1 == clip.vertices[index + 1]
        v2 == clip.vertices[index + 2]
        branch == ClipBranch(v0, v1, v2)
        appended(n0, n1, n2) ==
            [clip EXCEPT !.clipTriangles = Append(@, TRUE),
                         !.numClipTriangles = @ + 1,
                         !.vertices = @ \o <<n0, n1, n2>>]
    IN  IF ~clip.clipTriangles[i] THEN clip
        ELSE IF branch = "reject" THEN [clip EXCEPT !.clipTriangles[i] = FALSE]
        ELSE IF branch = "two01"
            THEN [clip EXCEPT !.vertices[index] = ClipEdge(v0, v2, v0, v2),
                              !.vertices[index + 1] = ClipEdge(v1, v2, v1, v2)]
        ELSE IF branch = "two02"
            THEN [clip EXCEPT !.vertices[index] = ClipEdge(v0, v1, v0, v1),
                              !.vertices[index + 2] = ClipEdge(v2, v1, v2, v1)]
        ELSE IF branch = "two12"
            THEN [clip EXCEPT !.vertices[index + 1] = ClipEdge(v1, v0, v1, v0),
                              !.vertices[index + 2] = ClipEdge(v2, v0, v2, v0)]
        ELSE IF branch = "one0"
            THEN [appended(ClipEdge(v0, v2, v0, v2), ClipEdge(v0, v1, v0, v1), v2)
                    EXCEPT !.vertices[index] = ClipEdge(v0, v1, v0, v1)]
        ELSE IF branch = "one1"
            THEN [appended(v0, ClipEdge(v1, v0, v1, v0), ClipEdge(v1, v2, v1, v2))
                    EXCEPT !.vertices[index + 1] = ClipEdge(v1, v2, v1, v2)]
        ELSE IF branch = "one2"
            THEN [appended(ClipEdge(v2, v0, v2, v0), v1, ClipEdge(v2, v1, v2, v1))
                    EXCEPT !.vertices[index + 2] = ClipEdge(v2, v0, v2, v0)]
        ELSE clip

\* Lines 433-498: the loop over the candidates present when the pass began.
RECURSIVE ClipLoop(_, _, _)
ClipLoop(clip, i, trianglesNow) ==
    IF i > trianglesNow THEN clip
    ELSE ClipLoop(ClipCandidate(clip, i), i + 1, trianglesNow)

ClipVertices(clip) == ClipLoop(clip, 1, clip.numClipTriangles)

\* Lines 385-396: AddTriangle makes a pass on its candidates; lastArgs keeps
\* them as they were before it and lastRet as they are after it.
ClipVerticesCall ==
    /\ lastOp = "AddTriangle"
    /\ lastOp' = "ClipVertices"
    /\ lastRet' = ClipVertices(lastArgs)
    /\ UNCHANGED <<lastArgs, sizeVars, frameVars, schedVars, memVars>>

\* One pass more than AddTriangle makes.
ClipPlanesOneMore == 6 + 1

\* Lines 385-396: the passes AddTriangle can make, one per frustum plane.
ClipPlanes == 6

\* Lines 379-383: the candidates before the first pass, the input triangle
\* alone; plane counts the planes dealt with so far.
FirstCandidate ==
    [vertices |-> <<1, 1, 1>>, clipTriangles |-> <<TRUE>>, numClipTriangles |-> 1, plane |-> 0]

\* The distances of the candidates' vertices to the next plane: those of
\* `even` for the candidates at even positions of the arrays, those of `odd`
\* for the others.
WithDistances(clip, even, odd) ==
    [clip EXCEPT !.vertices = [k \in 1..Len(@) |->
        IF ((k - 1) \div 3) % 2 = 0 THEN even[((k - 1) % 3) + 1] ELSE odd[((k - 1) % 3) + 1]]]

\* Lines 385-396 for a plane whose bit is set in clipMask: the pass.
ClipNextPlane(even, odd) ==
    /\ lastOp \in {"AddTriangle", "ClipVertices"}
    /\ lastRet.plane < ClipPlanes
    /\ lastOp' = "ClipVertices"
    /\ lastArgs' = WithDistances([lastRet EXCEPT !.plane = @ + 1], even, odd)
    /\ lastRet' = ClipVertices(lastArgs')
    /\ UNCHANGED <<sizeVars, frameVars, schedVars, memVars>>

\* Lines 385-396 for a plane whose bit is not set: no pass.
SkipNextPlane ==
    /\ lastOp \in {"AddTriangle", "ClipVertices"}
    /\ lastRet.plane < ClipPlanes
    /\ lastRet' = [lastRet EXCEPT !.plane = @ + 1]
    /\ UNCHANGED <<lastOp, lastArgs, sizeVars, frameVars, schedVars, memVars>>

(***************************************************************************)
(* GenerateTrianglesWork, lines 501-583, executed by thread t.             *)
(***************************************************************************)
\* Lines 505-575.
GenerateWork(t) ==
    LET slot == running[t].idx + 1
    IN  /\ ~fault
        /\ running[t].kind = "gen"
        /\ running[t].pc = "work"
        /\ generateTrianglesTasks' = [generateTrianglesTasks EXCEPT
                ![slot] = AddBatchTriangles(@, @.batch)]
        /\ running' = [running EXCEPT ![t].pc = "dec"]
        /\ UNCHANGED <<sizeVars, callVars, numTriangleBatches, numReadyMipBuffers,
                       numPendingGenerateTasks, numPendingRasterizeTasks, runs, runLog>>
        /\ UNCHANGED <<workQueue, callerPc, memVars>>

\* GenerateDecrement with every task, not only the last, going on to start
\* the rasterization.
GenerateDecrementAlways(t) ==
    /\ ~fault
    /\ running[t].kind = "gen"
    /\ running[t].pc = "dec"
    /\ numPendingGenerateTasks' = numPendingGenerateTasks - 1
    /\ running' = [running EXCEPT ![t].pc = "store"]
    /\ UNCHANGED <<sizeVars, callVars, numTriangleBatches, numReadyMipBuffers,
                   numPendingRasterizeTasks, generateTrianglesTasks, runs, runLog>>
    /\ UNCHANGED <<workQueue, callerPc, memVars>>

\* Line 578: numPendingGenerateTasks.fetch_add(-1) == 1.
GenerateDecrement(t) ==
    /\ ~fault
    /\ running[t].kind = "gen"
    /\ running[t].pc = "dec"
    /\ numPendingGenerateTasks' = numPendingGenerateTasks - 1
    /\ running' = [running EXCEPT ![t] =
            IF numPendingGenerateTasks = 1 THEN [@ EXCEPT !.pc = "store"] ELSE NoTask]
    /\ callerPc' = IF numPendingGenerateTasks = 1 THEN callerPc ELSE AfterTask(t)
    /\ UNCHANGED <<sizeVars, callVars, numTriangleBatches, numReadyMipBuffers,
                   numPendingRasterizeTasks, generateTrianglesTasks, runs, runLog>>
    /\ UNCHANGED <<workQueue, memVars>>

\* GenerateStoreSlices storing one more than the number of raster tasks.
GenerateStoreSlicesPlusOne(t) ==
    /\ ~fault
    /\ running[t].kind = "gen"
    /\ running[t].pc = "store"
    /\ numPendingRasterizeTasks' = activeSlices + 1
    /\ running' = [running EXCEPT ![t].pc = "queue"]
    /\ UNCHANGED <<sizeVars, callVars, numTriangleBatches, numReadyMipBuffers,
                   numPendingGenerateTasks, generateTrianglesTasks, runs, runLog>>
    /\ UNCHANGED <<workQueue, callerPc, memVars>>

\* Line 580.
GenerateStoreSlices(t) ==
    /\ ~fault
    /\ running[t].kind = "gen"
    /\ running[t].pc = "store"
    /\ numPendingRasterizeTasks' = activeSlices
    /\ running' = [running EXCEPT ![t].pc = "queue"]
    /\ UNCHANGED <<sizeVars, callVars, numTriangleBatches, numReadyMipBuffers,
                   numPendingGenerateTasks, generateTrianglesTasks, runs, runLog>>
    /\ UNCHANGED <<workQueue, callerPc, memVars>>

\* Line 581.
GenerateQueueRaster(t) ==
    /\ ~fault
    /\ running[t].kind = "gen"
    /\ running[t].pc = "queue"
    /\ workQueue' = workQueue \o
            [k \in 1..activeSlices |-> QueuedTask("raster", k - 1, running[t].run)]
    /\ runLog' = [runLog EXCEPT ![running[t].run].rasterQueued = @ + 1]
    /\ running' = [running EXCEPT ![t] = NoTask]
    /\ callerPc' = AfterTask(t)
    /\ UNCHANGED <<sizeVars, callVars, numTriangleBatches, numReadyMipBuffers,
                   numPendingGenerateTasks, numPendingRasterizeTasks,
                   generateTrianglesTasks, runs, memVars>>

(***************************************************************************)
(* RasterizeTrianglesWork, lines 585-686, executed by thread t.            *)
(***************************************************************************)
\* RasterizeSpans (OcclusionBuffer.h, not among the source files), from
\* section 4.4 of the specification: inside the slice, every pixel the
\* triangle covers keeps the minimum of its depth and the triangle's.
Covers(tri, sliceStartY, sliceEndY, i) ==
    /\ i >= 0
    /\ width > 0
    /\ (i \div width) >= Max(tri.minY, sliceStartY)
    /\ (i \div width) < Min(tri.maxY, sliceEndY)
    /\ (i % width) >= tri.x0
    /\ (i % width) < tri.x1

\* RasterizedBucket with every covering triangle overwriting the pixel,
\* whatever depth it holds.
RECURSIVE RasterizedBucketOverwrite(_, _, _, _, _, _)
RasterizedBucketOverwrite(d, triangles, indices, sliceStartY, sliceEndY, i) ==
    IF indices = <<>> THEN d
    ELSE RasterizedBucketOverwrite(
            IF /\ Head(indices) < Len(triangles)
               /\ Covers(triangles[Head(indices) + 1], sliceStartY, sliceEndY, i)
            THEN triangles[Head(indices) + 1].z
            ELSE d,
            triangles, Tail(indices), sliceStartY, sliceEndY, i)

\* Lines 608-680 for one pixel: the triangles of a bucket in order, d being
\* the pixel's depth so far and i its index relative to buffer.
RECURSIVE RasterizedBucket(_, _, _, _, _, _)
RasterizedBucket(d, triangles, indices, sliceStartY, sliceEndY, i) ==
    IF indices = <<>> THEN d
    ELSE RasterizedBucket(
            IF /\ Head(indices) < Len(triangles)
               /\ Covers(triangles[Head(indices) + 1], sliceStartY, sliceEndY, i)
            THEN Min(d, triangles[Head(indices) + 1].z)
            ELSE d,
            triangles, Tail(indices), sliceStartY, sliceEndY, i)

\* Lines 602-681 for one pixel: the batches in order (b counts the batches done).
RECURSIVE RasterizedBatches(_, _, _, _, _, _)
RasterizedBatches(d, b, sliceIdx, sliceStartY, sliceEndY, i) ==
    IF b >= numTriangleBatches \/ b >= Len(generateTrianglesTasks) THEN d
    ELSE RasterizedBatches(
            RasterizedBucket(d, generateTrianglesTasks[b + 1].triangles,
                             generateTrianglesTasks[b + 1].triangleIndices[sliceIdx],
                             sliceStartY, sliceEndY, i),
            b + 1, sliceIdx, sliceStartY, sliceEndY, i)

\* Lines 593-681: the buffer after the slice's rows were cleared to the
\* sentinel depth and its triangles drawn.
RasterizedSlice(buf, sliceIdx, sliceStartY, sliceEndY) ==
    [k \in 1..Len(buf) |->
        IF (k - width - 2) >= width * sliceStartY /\ (k - width - 2) < width * sliceEndY
        THEN RasterizedBatches(OCCLUSION_Z_SCALE, 0, sliceIdx, sliceStartY, sliceEndY, k - width - 2)
        ELSE buf[k]]

\* A bucket names a triangle its batch does not have (triangles[idx] past the end).
StaleIndex(sliceIdx) ==
    \E i \in 1..Min(numTriangleBatches, Len(generateTrianglesTasks)) :
        \E k \in 1..Len(generateTrianglesTasks[i].triangleIndices[sliceIdx]) :
            generateTrianglesTasks[i].triangleIndices[sliceIdx][k]
                >= Len(generateTrianglesTasks[i].triangles)

\* Lines 589-681.
RasterizeWork(t) ==
    LET sliceIdx == running[t].idx
        sliceStartY == startY[sliceIdx]
        sliceEndY == endY[sliceIdx]
    IN  /\ ~fault
        /\ running[t].kind = "raster"
        /\ running[t].pc = "work"
        /\ fullBuffer' = RasterizedSlice(fullBuffer, sliceIdx, sliceStartY, sliceEndY)
        /\ fault' = StaleIndex(sliceIdx)
        /\ running' = [running EXCEPT ![t].pc = "dec"]
        /\ UNCHANGED <<width, height, sliceHeight, activeSlices, startY, endY, mipBuffers>>
        /\ UNCHANGED <<callVars, frameVars, workQueue, callerPc, garbage>>

\* RasterizeDecrement with every task, not only the last, going on to queue
\* the hierarchy task.
RasterizeDecrementAlways(t) ==
    /\ ~fault
    /\ running[t].kind = "raster"
    /\ running[t].pc = "dec"
    /\ numPendingRasterizeTasks' = numPendingRasterizeTasks - 1
    /\ running' = [running EXCEPT ![t].pc = "queue"]
    /\ UNCHANGED <<sizeVars, callVars, numTriangleBatches, numReadyMipBuffers,
                   numPendingGenerateTasks, generateTrianglesTasks, runs, runLog>>
    /\ UNCHANGED <<workQueue, callerPc, memVars>>

\* Line 684: numPendingRasterizeTasks.fetch_add(-1) == 1.
RasterizeDecrement(t) ==
    /\ ~fault
    /\ running[t].kind = "raster"
    /\ running[t].pc = "dec"
    /\ numPendingRasterizeTasks' = numPendingRasterizeTasks - 1
    /\ running' = [running EXCEPT ![t] =
            IF numPendingRasterizeTasks = 1 THEN [@ EXCEPT !.pc = "queue"] ELSE NoTask]
    /\ callerPc' = IF numPendingRasterizeTasks = 1 THEN callerPc ELSE AfterTask(t)
    /\ UNCHANGED <<sizeVars, callVars, numTriangleBatches, numReadyMipBuffers,
                   numPendingGenerateTasks, generateTrianglesTasks, runs, runLog>>
    /\ UNCHANGED <<workQueue, memVars>>

\* Line 685.
RasterizeQueueHierarchy(t) ==
    /\ ~fault
    /\ running[t].kind = "raster"
    /\ running[t].pc = "queue"
    /\ workQueue' = Append(workQueue, QueuedTask("hier", 0, running[t].run))
    /\ runLog' = [runLog EXCEPT ![running[t].run].hierQueued = @ + 1]
    /\ running' = [running EXCEPT ![t] = NoTask]
    /\ callerPc' = AfterTask(t)
    /\ UNCHANGED <<sizeVars, callVars, numTriangleBatches, numReadyMipBuffers,
                   numPendingGenerateTasks, numPendingRasterizeTasks,
                   generateTrianglesTasks, runs, memVars>>

(***************************************************************************)
(* The caller's calls.                                                     *)
(***************************************************************************)
NewGenerateTask == [batch |-> <<>>, triangles |-> <<>>, triangleIndices |-> [i \in Slices |-> <<>>]]

\* AddTriangles without the clear() calls of lines 139-141 and 161-163.
AddTrianglesKeepLists(batch) ==
    LET tasks == IF Len(generateTrianglesTasks) <= numTriangleBatches
                 THEN Append(generateTrianglesTasks, NewGenerateTask)
                 ELSE generateTrianglesTasks
    IN  /\ CallerIdle
        /\ numTriangleBatches < MaxBatches
        /\ generateTrianglesTasks' = [tasks EXCEPT ![numTriangleBatches + 1].batch = batch]
        /\ numTriangleBatches' = numTriangleBatches + 1
        /\ lastOp' = "AddTriangles"
        /\ lastArgs' = <<>>
        /\ lastRet' = TRUE
        /\ UNCHANGED <<sizeVars, numReadyMipBuffers, numPendingGenerateTasks,
                       numPendingRasterizeTasks, runs, runLog, schedVars, memVars>>

\* AddTriangles, lines 125-144 and 146-166.
AddTriangles(batch) ==
    LET tasks == IF Len(generateTrianglesTasks) <= numTriangleBatches
                 THEN Append(generateTrianglesTasks, NewGenerateTask)
                 ELSE generateTrianglesTasks
    IN  /\ CallerIdle
        /\ numTriangleBatches < MaxBatches
        /\ generateTrianglesTasks' = [tasks EXCEPT ![numTriangleBatches + 1] =
                [batch |-> batch,
                 triangles |-> <<>>,
                 triangleIndices |-> [i \in Slices |->
                     IF i < activeSlices THEN <<>> ELSE @.triangleIndices[i]]]]
        /\ numTriangleBatches' = numTriangleBatches + 1
        /\ lastOp' = "AddTriangles"
        /\ lastArgs' = <<>>
        /\ lastRet' = TRUE
        /\ UNCHANGED <<sizeVars, numReadyMipBuffers, numPendingGenerateTasks,
                       numPendingRasterizeTasks, runs, runLog, schedVars, memVars>>

\* Lines 171-174: whether the call starts the pipeline.
DrawStarts == ~BufferIsNull /\ IsCompleted /\ numTriangleBatches > 0

\* DrawTriangles without the store of line 177: the counter stays at zero
\* until the last clip/project task loads it.
DrawTrianglesNoPlaceholder ==
    /\ CallerIdle
    /\ DrawStarts => runs < MaxRuns
    /\ lastOp' = "DrawTriangles"
    /\ lastArgs' = <<>>
    /\ lastRet' = DrawStarts
    /\ IF DrawStarts
       THEN /\ numPendingGenerateTasks' = numTriangleBatches
            /\ numPendingRasterizeTasks' = 0
            /\ workQueue' = workQueue \o
                    [k \in 1..numTriangleBatches |-> QueuedTask("gen", k - 1, FreeTag)]
            /\ runs' = runs + 1
            /\ runLog' = [runLog EXCEPT ![FreeTag] = [NoRun EXCEPT !.started = TRUE]]
       ELSE UNCHANGED <<numPendingGenerateTasks, numPendingRasterizeTasks, workQueue,
                        runs, runLog>>
    /\ UNCHANGED <<sizeVars, numTriangleBatches, numReadyMipBuffers, generateTrianglesTasks,
                   running, callerPc, memVars>>

\* DrawTriangles, lines 168-180. lastRet records whether tasks were queued.
DrawTriangles ==
    /\ CallerIdle
    /\ DrawStarts => runs < MaxRuns
    /\ lastOp' = "DrawTriangles"
    /\ lastArgs' = <<>>
    /\ lastRet' = DrawStarts
    /\ IF DrawStarts
       THEN /\ numPendingGenerateTasks' = numTriangleBatches
            /\ numPendingRasterizeTasks' = 1
            /\ workQueue' = workQueue \o
                    [k \in 1..numTriangleBatches |-> QueuedTask("gen", k - 1, FreeTag)]
            /\ runs' = runs + 1
            /\ runLog' = [runLog EXCEPT ![FreeTag] = [NoRun EXCEPT !.started = TRUE]]
       ELSE UNCHANGED <<numPendingGenerateTasks, numPendingRasterizeTasks, workQueue,
                        runs, runLog>>
    /\ UNCHANGED <<sizeVars, numTriangleBatches, numReadyMipBuffers, generateTrianglesTasks,
                   running, callerPc, memVars>>

\* Complete, line 182, and Reset, line 114, which begins with Complete():
\* the caller enters the loop of line 184.
EnterComplete(op) ==
    /\ CallerIdle
    /\ lastOp' = op
    /\ lastArgs' = <<>>
    /\ lastRet' = TRUE
    /\ callerPc' = "check"
    /\ UNCHANGED <<sizeVars, frameVars, workQueue, running, memVars>>

Complete == EnterComplete("Complete")

Reset == EnterComplete("Reset")

\* Line 184: the loop test. When it fails Complete() returns, and Reset()
\* goes on with lines 119-122.
CompleteCheck ==
    /\ ~fault
    /\ callerPc = "check"
    /\ callerPc' = IF numPendingRasterizeTasks > 0 THEN "try"
                   ELSE IF lastOp = "Reset" THEN "counts"
                   ELSE "idle"
    /\ UNCHANGED <<sizeVars, callVars, frameVars, workQueue, running, memVars>>

\* Lines 119-120. The stores are not atomic with the ones that follow: a
\* hierarchy task that is still running goes on between them.
ResetCounts ==
    /\ ~fault
    /\ callerPc = "counts"
    /\ numTriangleBatches' = 0
    /\ numReadyMipBuffers' = 0
    /\ callerPc' = "pending"
    /\ UNCHANGED <<numPendingGenerateTasks, numPendingRasterizeTasks, generateTrianglesTasks,
                   runs, runLog>>
    /\ UNCHANGED <<sizeVars, callVars, workQueue, running, memVars>>

\* Lines 121-123: the two stores, and the return.
ResetPending ==
    /\ ~fault
    /\ callerPc = "pending"
    /\ numPendingGenerateTasks' = 0
    /\ numPendingRasterizeTasks' = 0
    /\ runs' = 0
    /\ callerPc' = "idle"
    /\ UNCHANGED <<numTriangleBatches, numReadyMipBuffers, generateTrianglesTasks, runLog>>
    /\ UNCHANGED <<sizeVars, callVars, workQueue, running, memVars>>

\* Line 185 when no task is queued: TryComplete() returns at once.
TryCompleteNothing ==
    /\ ~fault
    /\ callerPc = "try"
    /\ workQueue = <<>>
    /\ callerPc' = "check"
    /\ UNCHANGED <<sizeVars, callVars, frameVars, workQueue, running, memVars>>

(***************************************************************************)
(* IsVisible, lines 193-303. ModelTransform and ViewportTransform are      *)
(* Matrix4/Vector4 code that is not among the source files: a query is     *)
(* given as the eight transformed corners, each with its clip-space z and  *)
(* its projected position. Projected x and y are in half pixels (x2 = 2x), *)
(* which represents the offsets 1.5 and 0.5 of lines 237-238 exactly.      *)
(***************************************************************************)
Corners == 1..8

\* The near-plane test looking at vertices[0] only.
CrossesNearPlaneFirstCorner(vertices) == vertices[1].clipZ <= 0

\* Lines 212 and 223: some corner is at or behind the near plane.
CrossesNearPlane(vertices) == \E i \in Corners : vertices[i].clipZ <= 0

\* (int) of a float given in half units: truncation toward zero.
TruncHalf(v2) == IF v2 >= 0 THEN v2 \div 2 ELSE -((-v2) \div 2)

\* Lines 215-249: the rectangle of the corners, widened and clipped.
QueryRect(vertices) ==
    LET minX2 == SetMin({vertices[i].x2 : i \in Corners})
        maxX2 == SetMax({vertices[i].x2 : i \in Corners})
        minY2 == SetMin({vertices[i].y2 : i \in Corners})
        maxY2 == SetMax({vertices[i].y2 : i \in Corners})
        right == TruncHalf(maxX2 + 1)
        bottom == TruncHalf(maxY2 + 1)
    IN  [left |-> Max(0, TruncHalf(minX2 - 3)),
         top |-> Max(0, TruncHalf(minY2 - 3)),
         right |-> IF right >= width THEN width - 1 ELSE right,
         bottom |-> IF bottom >= height THEN height - 1 ELSE bottom]

\* Line 252.
QueryDepth(vertices) == SetMin({vertices[i].z : i \in Corners}) - width

\* Lines 258-281 for level i (counted from 0): the cells the loops visit, each
\* as the offset of its row from mipBuffer and its column. With a stride of
\* zero the loop of line 267 never leaves its first row.
MipScan(i, rect) ==
    LET shift == i + 1
        mipWidth == width \div (2 ^ shift)
        columns == (rect.left \div (2 ^ shift))..(rect.right \div (2 ^ shift))
        firstRow == (rect.top \div (2 ^ shift)) * mipWidth
        lastRow == (rect.bottom \div (2 ^ shift)) * mipWidth
        rows == IF mipWidth = 0 THEN {0}
                ELSE {r \in firstRow..lastRow : (r - firstRow) % mipWidth = 0}
    IN  rows \X columns

\* Lines 257-283 for level i (counted from 0): "visible" (line 274),
\* "hidden" (line 283), "finer" (the loop goes on), or "hang".
MipLevelVerdict(i, rect, z) ==
    LET mipWidth == width \div (2 ^ (i + 1))
        cells == {MipRead(i + 1, c[1] + c[2]) : c \in MipScan(i, rect)}
    IN  IF \E c \in cells : z <= c.min THEN "visible"
        ELSE IF mipWidth = 0 THEN "hang"
        ELSE IF \A c \in cells : z > c.max THEN "hidden"
        ELSE "finer"

\* Lines 267-281: the cells of level i that are read, as indices into
\* mipBuffers[i]: those visited before the return of line 274.
MipReads(i, rect, z) ==
    {c[1] + c[2] : c \in {c \in MipScan(i, rect) :
        \A e \in MipScan(i, rect) :
            (e[1] < c[1] \/ (e[1] = c[1] /\ e[2] < c[2]))
                => ~(z <= MipRead(i + 1, e[1] + e[2]).min)}}

\* Lines 287-299: the pixels that are read, as <<column, row>>: those visited
\* before the return of line 296.
PixelReads(rect, z) ==
    LET scan == (rect.left..rect.right) \X (rect.top..rect.bottom)
    IN  {p \in scan :
            \A e \in scan :
                (e[2] < p[2] \/ (e[2] = p[2] /\ e[1] < p[1]))
                    => ~(z <= BufferRead(e[2] * width + e[1]))}

\* Lines 287-302.
PixelVerdict(rect, z) ==
    LET pixels == {BufferRead(y * width + x) :
                        x \in rect.left..rect.right, y \in rect.top..rect.bottom}
    IN  IF \E d \in pixels : z <= d THEN "visible" ELSE "hidden"

\* Lines 255-302: from level i down to the pixels.
RECURSIVE ScanVerdict(_, _, _)
ScanVerdict(i, rect, z) ==
    IF i < 0 THEN PixelVerdict(rect, z)
    ELSE LET verdict == MipLevelVerdict(i, rect, z)
         IN  IF verdict = "finer" THEN ScanVerdict(i - 1, rect, z) ELSE verdict

\* IsVisibleVerdict without the test of numTriangleBatches of line 195.
IsVisibleVerdictBufferOnly(vertices) ==
    IF BufferIsNull THEN "visible"
    ELSE IF CrossesNearPlane(vertices) THEN "visible"
    ELSE ScanVerdict(numReadyMipBuffers - 1, QueryRect(vertices), QueryDepth(vertices))

IsVisibleVerdict(vertices) ==
    IF BufferIsNull \/ numTriangleBatches = 0 THEN "visible"
    ELSE IF CrossesNearPlane(vertices) THEN "visible"
    ELSE ScanVerdict(numReadyMipBuffers - 1, QueryRect(vertices), QueryDepth(vertices))

\* A call of IsVisible by the caller; a call that never returns leaves the
\* caller inside it.
IsVisible(vertices) ==
    LET verdict == IsVisibleVerdict(vertices)
    IN  /\ CallerIdle
        /\ lastOp' = "IsVisible"
        /\ lastArgs' = vertices
        /\ lastRet' = IF verdict = "hang" THEN lastRet ELSE verdict = "visible"
        /\ callerPc' = IF verdict = "hang" THEN "hung" ELSE callerPc
        /\ UNCHANGED <<sizeVars, frameVars, workQueue, running, memVars>>

(***************************************************************************)
(* Construction, lines 20-37.                                              *)
(***************************************************************************)
InitSize ==
    /\ width = 0
    /\ height = 0
    /\ sliceHeight = 0
    /\ activeSlices = 0
    /\ startY = [i \in Slices |-> 0]
    /\ endY = [i \in Slices |-> 0]
    /\ fullBuffer = <<>>
    /\ mipBuffers = <<>>

InitCall ==
    /\ lastOp = "ctor"
    /\ lastArgs = <<>>
    /\ lastRet = TRUE

InitFrame ==
    /\ numTriangleBatches = 0
    /\ numReadyMipBuffers = 0
    /\ numPendingGenerateTasks = 0
    /\ numPendingRasterizeTasks = 0
    /\ generateTrianglesTasks = <<>>
    /\ runs = 0
    /\ runLog = [tag \in RunTags |-> NoRun]

InitSched ==
    /\ workQueue = <<>>
    /\ running = [t \in Threads |-> NoTask]
    /\ callerPc = "idle"

GarbageValues == {0, OCCLUSION_Z_SCALE + 1}

InitMem(values) ==
    /\ garbage \in values
    /\ fault = FALSE

Init == InitSize /\ InitCall /\ InitFrame /\ InitSched /\ InitMem({0})

(***************************************************************************)
(* Sizing alone: any sequence of SetSize calls on a constructed buffer.    *)
(***************************************************************************)
WidthArgs == (-1..MaxSmallDim) \cup {16}
HeightArgs == (-1..MaxSmallDim) \cup {17, 33}

SizeCall == \E w \in WidthArgs, h \in HeightArgs : SetSize(w, h)

NextSize == SizeCall

SpecSize == Init /\ [][NextSize]_vars

(***************************************************************************)
(* The pipeline: the caller's calls interleaved with the threads' steps.   *)
(***************************************************************************)
PipeSizes == {<<32, 2>>}

\* A batch is the sequence of its surviving triangles.
Triangle(clipped, minY, maxY, x0, x1, z) ==
    [clipped |-> clipped, minY |-> minY, maxY |-> maxY, x0 |-> x0, x1 |-> x1, z |-> z]

PipeBatches == {<<Triangle(FALSE, 0, 2, 0, 1, 5)>>}

ThreadStep(t) ==
    \/ TakeTask(t)
    \/ GenerateWork(t)
    \/ GenerateDecrement(t)
    \/ GenerateStoreSlices(t)
    \/ GenerateQueueRaster(t)
    \/ RasterizeWork(t)
    \/ RasterizeDecrement(t)
    \/ RasterizeQueueHierarchy(t)
    \/ BuildLevel0(t)
    \/ BuildNextLevel(t)

PipeSetSize == \E size \in PipeSizes : SetSize(size[1], size[2])
PipeAddTriangles == \E batch \in PipeBatches : AddTriangles(batch)
Threading == \E t \in Threads : ThreadStep(t)

Next ==
    \/ PipeSetSize
    \/ PipeAddTriangles
    \/ DrawTriangles
    \/ Complete
    \/ Reset
    \/ CompleteCheck
    \/ ResetCounts
    \/ ResetPending
    \/ TryCompleteNothing
    \/ Threading

Spec == Init /\ [][Next]_vars

\* The pipeline on a buffer of one slice and one mip level, for progress.
LiveSizes == {<<2, 2>>}
LiveSetSize == \E size \in LiveSizes : SetSize(size[1], size[2])

NextLive ==
    \/ LiveSetSize
    \/ PipeAddTriangles
    \/ DrawTriangles
    \/ Complete
    \/ Reset
    \/ CompleteCheck
    \/ ResetCounts
    \/ ResetPending
    \/ TryCompleteNothing
    \/ Threading

\* The scheduler executes every task that is queued and lets every thread
\* that executes one go on (section 6: "eventual fair execution of enqueued
\* work"); the caller's thread goes on with the loop of Complete().
LiveSpec ==
    /\ Init
    /\ [][NextLive]_vars
    /\ WF_vars(Threading)
    /\ WF_vars(CompleteCheck)
    /\ WF_vars(ResetCounts)
    /\ WF_vars(ResetPending)
    /\ WF_vars(TryCompleteNothing)

(***************************************************************************)
(* One frame: a size, one batch, one run of the pipeline, over sizes with  *)
(* odd widths and heights and with one to three mip levels.                *)
(***************************************************************************)
FrameSetSize(sizes) ==
    /\ numTriangleBatches = 0
    /\ runs = 0
    /\ \E size \in sizes : SetSize(size[1], size[2])

FrameAddTriangles(batches) ==
    /\ numTriangleBatches = 0
    /\ \E batch \in batches : AddTriangles(batch)

FrameDrawTriangles == runs = 0 /\ DrawTriangles

HierSizes == {<<3, 3>>, <<3, 17>>, <<2, 33>>, <<18, 1>>, <<32, 2>>}
\* The empty batch is one of which no triangle survives clipping and culling.
HierBatches == {<<>>, <<Triangle(FALSE, 1, 2, 0, 1, 5)>>, <<Triangle(TRUE, 0, 40, 1, 40, 7)>>}

HierSetSize == FrameSetSize(HierSizes)
HierAddTriangles == FrameAddTriangles(HierBatches)

InitHier == InitSize /\ InitCall /\ InitFrame /\ InitSched /\ InitMem(GarbageValues)

NextHier ==
    \/ HierSetSize
    \/ HierAddTriangles
    \/ FrameDrawTriangles
    \/ Complete
    \/ CompleteCheck
    \/ TryCompleteNothing
    \/ Threading

SpecHier == InitHier /\ [][NextHier]_vars

(***************************************************************************)
(* One frame with visibility queries made at any moment the caller is not  *)
(* inside another call.                                                    *)
(***************************************************************************)
\* The eight corners of a box: corner `behind` (none when 0) has clip-space
\* z = behindZ, the others are in front of the near plane.
QueryBox(behind, behindZ, minX2, maxX2, minY2, maxY2, minZ, maxZ) ==
    [i \in Corners |->
        [clipZ |-> IF i = behind THEN behindZ ELSE 1,
         x2 |-> IF i % 2 = 1 THEN minX2 ELSE maxX2,
         y2 |-> IF ((i - 1) \div 2) % 2 = 0 THEN minY2 ELSE maxY2,
         z |-> IF i <= 4 THEN minZ ELSE maxZ]]

VisSizes == {<<32, 2>>}
VisBoxes ==
    {QueryBox(0, 0, 0, 0, 0, 0, 100, 200),
     QueryBox(0, 0, 0, 0, 0, 0, 35, 200),
     QueryBox(1, 0, 0, 0, 0, 0, 100, 200),
     QueryBox(5, 0, 0, 0, 0, 0, 100, 200),
     QueryBox(8, -1, 0, 0, 0, 0, 100, 200)}

VisSetSize == FrameSetSize(VisSizes)
VisAddTriangles == FrameAddTriangles(PipeBatches)
VisQuery == \E box \in VisBoxes : IsVisible(box)

NextVis ==
    \/ VisSetSize
    \/ VisAddTriangles
    \/ FrameDrawTriangles
    \/ Complete
    \/ CompleteCheck
    \/ TryCompleteNothing
    \/ Threading
    \/ VisQuery

SpecVis == Init /\ [][NextVis]_vars

(***************************************************************************)
(* One frame whose only batch is an occluder covering the whole viewport   *)
(* at depth OccluderDepth, with queries for boxes in front of the near     *)
(* plane, far behind the occluder and in front of it.                      *)
(***************************************************************************)
OccluderDepth == 50
OccSizes == {<<32, 2>>, <<2, 33>>}
OccBatches == {<<Triangle(FALSE, 0, 40, 0, 40, OccluderDepth)>>}
OccBoxes ==
    {QueryBox(0, 0, 0, 0, 0, 0, 1000, 2000),
     QueryBox(0, 0, 2, 6, 0, 2, 1000, 1000),
     QueryBox(0, 0, 0, 0, 0, 0, 40, 2000)}

OccSetSize == FrameSetSize(OccSizes)
OccAddTriangles == FrameAddTriangles(OccBatches)
OccQuery == \E box \in OccBoxes : IsVisible(box)

NextOcc ==
    \/ OccSetSize
    \/ OccAddTriangles
    \/ FrameDrawTriangles
    \/ Complete
    \/ CompleteCheck
    \/ TryCompleteNothing
    \/ Threading
    \/ OccQuery

SpecOcc == Init /\ [][NextOcc]_vars

(***************************************************************************)
(* Clipping alone: one pass over any list of up to MaxClipTriangles        *)
(* candidates, live or rejected, with vertices behind, on and in front of  *)
(* the plane.                                                              *)
(***************************************************************************)
ClipDistances == {-1, 0, 1}

ClipInputs ==
    UNION {
        {[vertices |-> vs, clipTriangles |-> live, numClipTriangles |-> n] :
            vs \in [1..(3 * n) -> ClipDistances], live \in [1..n -> BOOLEAN]}
        : n \in 1..MaxClipTriangles}

\* AddTriangle holds a list of candidates and is about to clip it.
InitClip ==
    /\ InitSize /\ InitFrame /\ InitSched /\ InitMem({0})
    /\ lastOp = "AddTriangle"
    /\ lastArgs \in ClipInputs
    /\ lastRet = lastArgs

NextClip == ClipVerticesCall

SpecClip == InitClip /\ [][NextClip]_vars

(***************************************************************************)
(* The clipping of one input triangle: for each of the planes in turn      *)
(* either no pass, or a pass in which the candidates lie in one of the     *)
(* eight ways a triangle can lie about a plane.                            *)
(***************************************************************************)
PlaneDistances == [1..3 -> {-1, 1}]

InitPlanes ==
    /\ InitSize /\ InitFrame /\ InitSched /\ InitMem({0})
    /\ lastOp = "AddTriangle"
    /\ lastArgs = FirstCandidate
    /\ lastRet = FirstCandidate

PlanePass == \E even \in PlaneDistances, odd \in PlaneDistances : ClipNextPlane(even, odd)

NextPlanes ==
    \/ PlanePass
    \/ SkipNextPlane

SpecPlanes == InitPlanes /\ [][NextPlanes]_vars

(***************************************************************************)
(* One frame of up to MaxBatches batches, submitted in any order before    *)
(* the run is started. The two batches overlap each other, and each holds  *)
(* a triangle nearer than one of the other's.                              *)
(***************************************************************************)
OrderSizes == {<<2, 2>>, <<4, 3>>}
OrderBatches ==
    {<<Triangle(FALSE, 0, 3, 0, 4, 5), Triangle(FALSE, 0, 1, 1, 2, 2)>>,
     <<Triangle(TRUE, 1, 3, 0, 1, 3), Triangle(FALSE, 0, 1, 1, 3, 4)>>}

OrderSetSize == FrameSetSize(OrderSizes)
OrderAddTriangles == runs = 0 /\ \E batch \in OrderBatches : AddTriangles(batch)

NextOrder ==
    \/ OrderSetSize
    \/ OrderAddTriangles
    \/ FrameDrawTriangles
    \/ Complete
    \/ CompleteCheck
    \/ TryCompleteNothing
    \/ Threading

SpecOrder == Init /\ [][NextOrder]_vars

(***************************************************************************)
(* Frames of one batch each, with or without a Reset() between them, on    *)
(* buffers of two sizes, and queries for boxes whose rectangles lie inside *)
(* the buffer, beyond each of its four sides, and around all of it.        *)
(***************************************************************************)
ReadsSizes == {<<32, 2>>, <<3, 3>>}
ReadsBoxes ==
    {QueryBox(0, 0, 2, 6, 0, 2, 1000, 1000),
     QueryBox(0, 0, -40, -20, 0, 2, 1000, 1000),
     QueryBox(0, 0, 100, 120, 0, 2, 1000, 1000),
     QueryBox(0, 0, 2, 6, -40, -20, 1000, 1000),
     QueryBox(0, 0, 2, 6, 20, 40, 1000, 1000),
     QueryBox(0, 0, -40, 120, -40, 40, 1000, 1000),
     QueryBox(0, 0, 0, 0, 0, 0, 1000, 1000)}

ReadsSetSize == \E size \in ReadsSizes : SetSize(size[1], size[2])
ReadsQuery == \E box \in ReadsBoxes : IsVisible(box)

NextReads ==
    \/ ReadsSetSize
    \/ VisAddTriangles
    \/ DrawTriangles
    \/ Complete
    \/ Reset
    \/ CompleteCheck
    \/ ResetCounts
    \/ ResetPending
    \/ TryCompleteNothing
    \/ Threading
    \/ ReadsQuery

SpecReads == Init /\ [][NextReads]_vars

(***************************************************************************)
(* Properties of the pipeline.                                             *)
(***************************************************************************)
TasksQueued(kinds) == {k \in 1..Len(workQueue) : workQueue[k].kind \in kinds}
ThreadsIn(kinds, pcs) == {t \in Threads : running[t].kind \in kinds /\ running[t].pc \in pcs}
AllPcs == {"work", "dec", "store", "queue", "level0", "levels"}

\* No clip/project, raster or hierarchy task is queued or running.
NoTaskLeft == workQueue = <<>> /\ \A t \in Threads : running[t] = NoTask

\* The caller is back from Complete() with a pipeline run started since the
\* last Reset().
ReturnedFromComplete == lastOp = "Complete" /\ callerPc = "idle" /\ runs > 0

\* C1: whenever Complete() has returned after a DrawTriangles() that started
\* the pipeline, the pipeline is idle: no task is queued or running and
\* numReadyMipBuffers is the number of mip levels.
C1_IdleAfterComplete ==
    ReturnedFromComplete =>
        /\ NoTaskLeft
        /\ numReadyMipBuffers = Len(mipBuffers)

\* C2: once DrawTriangles() has started the pipeline, a call of Complete()
\* returns, with IsCompleted() true, provided every queued task is executed.
C2_CompleteTerminates ==
    (lastOp = "Complete" /\ callerPc = "check" /\ runs > 0)
        ~> (lastOp = "Complete" /\ callerPc = "idle" /\ IsCompleted)

C2_Witness ==
    /\ ReturnedFromComplete
    /\ IsCompleted
    /\ running[MainThread] = NoTask
    /\ runLog[0].hierQueued = 1

\* The generate tasks of run tag that have not finished writing their
\* triangle and bucket lists, and its raster tasks that have not finished
\* writing the depth buffer.
GenerateWriting(tag) ==
    \/ \E k \in TasksQueued({"gen"}) : workQueue[k].run = tag
    \/ \E t \in ThreadsIn({"gen"}, {"work"}) : running[t].run = tag
RasterWriting(tag) ==
    \/ \E k \in TasksQueued({"raster"}) : workQueue[k].run = tag
    \/ \E t \in ThreadsIn({"raster"}, {"work"}) : running[t].run = tag
RasterPresent(tag) ==
    \/ \E k \in TasksQueued({"raster"}) : workQueue[k].run = tag
    \/ \E t \in ThreadsIn({"raster"}, AllPcs) : running[t].run = tag
GeneratePresent(tag) ==
    \/ \E k \in TasksQueued({"gen"}) : workQueue[k].run = tag
    \/ \E t \in ThreadsIn({"gen"}, AllPcs) : running[t].run = tag

\* C3: no raster task is queued or running while a clip/project task of the
\* same run has not finished writing; the raster tasks of a run are queued
\* once, by the task that took numPendingGenerateTasks from 1 to 0.
C3_RasterAfterGenerate ==
    /\ \A tag \in RunTags :
            /\ runLog[tag].rasterQueued <= 1
            /\ (RasterPresent(tag) \/ runLog[tag].rasterQueued = 1) => ~GenerateWriting(tag)
            /\ (runLog[tag].started /\ ~GeneratePresent(tag)) => runLog[tag].rasterQueued = 1
    /\ \A t \in ThreadsIn({"gen"}, {"store", "queue"}) :
            /\ numPendingGenerateTasks = 0
            /\ ThreadsIn({"gen"}, AllPcs) = {t}
            /\ TasksQueued({"gen"}) = {}

C3_Witness ==
    /\ numTriangleBatches = 2
    /\ runLog[0].rasterQueued = 1
    /\ Cardinality(ThreadsIn({"raster"}, {"work"})) = 2

\* C4: the hierarchy task of a run is queued exactly once, and only after
\* every raster task of that run has finished writing the depth buffer.
C4_HierarchyOncePerRun ==
    \A tag \in RunTags :
        /\ runLog[tag].hierQueued <= 1
        /\ runLog[tag].hierQueued = 1 => (~RasterWriting(tag) /\ ~GenerateWriting(tag))
        /\ (runLog[tag].started /\ ~GeneratePresent(tag) /\ ~RasterPresent(tag))
                => runLog[tag].hierQueued = 1

C4_Witness ==
    /\ runs = 2
    /\ \A tag \in RunTags : runLog[tag].hierQueued = 1
    /\ Cardinality(TasksQueued({"hier"})) = 1

\* A task of a run started earlier has not finished.
PipelineRunning == ~NoTaskLeft

\* C5: DrawTriangles() is a no-op while a task of an earlier run has not
\* finished or while no buffer is allocated: it queues no task and leaves
\* both pending counters as they are.
C5_DrawNoOpWhileRunning ==
    [][(DrawTriangles /\ (PipelineRunning \/ BufferIsNull))
        => UNCHANGED <<workQueue, numPendingGenerateTasks, numPendingRasterizeTasks>>]_vars

(***************************************************************************)
(* Properties of sizing.                                                   *)
(***************************************************************************)
CeilDiv(a, b) == (a + b - 1) \div b

\* Dimensions of mip level i (0-based) by repeated rounding-up halving.
LevelWidth(i) == CeilDiv(width, 2^(i + 1))
LevelHeight(i) == CeilDiv(height, 2^(i + 1))

FitsMinSize(w, h, k) ==
    CeilDiv(w, 2^k) <= OCCLUSION_MIN_SIZE /\ CeilDiv(h, 2^k) <= OCCLUSION_MIN_SIZE

\* The number of halvings needed until both dimensions are <= the minimum size.
HalvingsNeeded(w, h) == CHOOSE k \in 0..31 : FitsMinSize(w, h, k) /\ \A j \in 0..(k - 1) : ~FitsMinSize(w, h, j)

LevelsHaveHalvedDims ==
    \A i \in 1..Len(mipBuffers) : Len(mipBuffers[i]) = LevelWidth(i - 1) * LevelHeight(i - 1)

SetSizeSucceeded == lastOp = "SetSize" /\ lastRet = TRUE

\* C8 as stated: after a successful SetSize the mip chain has as many levels as
\* halvings are needed until both dimensions are <= OCCLUSION_MIN_SIZE, and
\* every level has the rounded-up half of the dimensions of the one before it.
C8_MipChainAsClaimed ==
    SetSizeSucceeded =>
        /\ Len(mipBuffers) = HalvingsNeeded(width, height)
        /\ LevelsHaveHalvedDims

\* C8 amended: after a successful SetSize the dimensions are halved at least
\* once and until both are <= OCCLUSION_MIN_SIZE, one level per halving (no
\* level at all while nothing was ever allocated), and every level has the
\* rounded-up half of the dimensions of the one before it.
C8_MipChain ==
    SetSizeSucceeded =>
        /\ Len(mipBuffers) =
                IF BufferIsNull THEN 0 ELSE Max(1, HalvingsNeeded(width, height))
        /\ LevelsHaveHalvedDims

C8_Witness ==
    /\ SetSizeSucceeded
    /\ lastArgs = <<16, 33>>
    /\ Len(mipBuffers) = 3
    /\ Len(mipBuffers[3]) = 10

IsExactPowerOfTwo(v) == \E k \in 0..30 : v = 2^k

\* C9: SetSize with a non-positive width or height returns false and leaves
\* width, height, the slice layout, the depth buffer and the mip chain as
\* they were.
C9_NonPositiveRejected ==
    [][(lastOp' = "SetSize" /\ (lastArgs'[1] <= 0 \/ lastArgs'[2] <= 0))
        => (lastRet' = FALSE /\ UNCHANGED sizeVars)]_vars

\* C10: SetSize with a requested width that is not a power of two returns
\* false and leaves the state as it was, and a requested power-of-two width
\* with a positive height is accepted (stated for positive arguments, the
\* non-positive ones being C9's).
C10_WidthPowerOfTwo ==
    [][(lastOp' = "SetSize" /\ lastArgs'[1] > 0 /\ lastArgs'[2] > 0) =>
        /\ ~IsExactPowerOfTwo(lastArgs'[1]) => (lastRet' = FALSE /\ UNCHANGED sizeVars)
        /\ IsExactPowerOfTwo(lastArgs'[1]) => lastRet' = TRUE]_vars

(***************************************************************************)
(* Properties of the visibility query.                                     *)
(***************************************************************************)
\* C6: a query for a box with a corner at or behind the near plane (clip-space
\* z <= 0) that has returned has returned true, whatever the depth buffer and
\* the mip levels hold and however many mip levels are ready.
C6_NearPlaneVisible ==
    (lastOp = "IsVisible" /\ callerPc # "hung" /\ \E i \in Corners : lastArgs[i].clipZ <= 0)
        => lastRet = TRUE

\* A query returned true for a box whose first corner is in front of the near
\* plane and another is not, on a finished hierarchy whose scan says hidden.
C6_Witness ==
    /\ lastOp = "IsVisible"
    /\ lastRet = TRUE
    /\ lastArgs[1].clipZ > 0
    /\ \E i \in Corners : lastArgs[i].clipZ <= 0
    /\ ~BufferIsNull
    /\ numTriangleBatches > 0
    /\ numReadyMipBuffers = Len(mipBuffers)
    /\ ScanVerdict(numReadyMipBuffers - 1, QueryRect(lastArgs), QueryDepth(lastArgs)) = "hidden"

(***************************************************************************)
(* Properties of the depth hierarchy.                                      *)
(***************************************************************************)
\* The run of the pipeline has ended, its hierarchy task included.
HierarchyBuilt == runs > 0 /\ NoTaskLeft

\* The pixels, as indices relative to buffer, that cell (x, y) of a level
\* (counted from 1) covers: a square of side 2^level, cut at the buffer's edges.
RegionPixels(level, x, y) ==
    {py * width + px :
        px \in (x * 2 ^ level)..(Min(width, (x + 1) * 2 ^ level) - 1),
        py \in (y * 2 ^ level)..(Min(height, (y + 1) * 2 ^ level) - 1)}

CellBoundsRegion(level, x, y) ==
    LET cell == mipBuffers[level][y * LevelWidth(level - 1) + x + 1]
        depths == {BufferRead(i) : i \in RegionPixels(level, x, y)}
    IN  /\ cell.min # Uninit
        /\ cell.max # Uninit
        /\ \A d \in depths : cell.min <= d /\ cell.max >= d

\* C7: once the hierarchy build has finished, every cell of every mip level
\* has min <= the smallest and max >= the largest raw depth of the buffer
\* pixels in the region it covers, for every size SetSize accepts.
C7_MipCellsBoundRegion ==
    HierarchyBuilt =>
        \A level \in 1..Len(mipBuffers) :
            \A x \in 0..(LevelWidth(level - 1) - 1), y \in 0..(LevelHeight(level - 1) - 1) :
                CellBoundsRegion(level, x, y)

\* A finished hierarchy of at least two levels over a buffer of odd width,
\* whose second level's first cell spans the drawn depth and the background.
C7_Witness ==
    /\ HierarchyBuilt
    /\ width % 2 = 1
    /\ Len(mipBuffers) >= 2
    /\ mipBuffers[2][1].min = 5
    /\ mipBuffers[2][1].max = OCCLUSION_Z_SCALE

(***************************************************************************)
(* Further properties of sizing.                                           *)
(***************************************************************************)
RoundedUpToEven(h) == IF h % 2 = 1 THEN h + 1 ELSE h

\* C11: after a successful SetSize(w, h) the stored height is h rounded up to
\* the next even number, so the height in use is even.
C11_HeightStoredEven ==
    SetSizeSucceeded =>
        /\ height = RoundedUpToEven(lastArgs[2])
        /\ height % 2 = 0

(***************************************************************************)
(* Further properties of the visibility query.                             *)
(***************************************************************************)
\* Every pixel of the buffer holds depth d.
EveryPixelHolds(d) ==
    /\ ~BufferIsNull
    /\ \A x \in 0..(width - 1), y \in 0..(height - 1) : BufferRead(y * width + x) = d

\* C12: with every pixel holding the occluder's depth d and the pipeline
\* complete, a query for a box in front of the near plane whose eight corners
\* all project to a depth greater than d returns false.
C12_BehindOccluderHidden ==
    (/\ lastOp = "IsVisible"
     /\ HierarchyBuilt
     /\ EveryPixelHolds(OccluderDepth)
     /\ \A i \in Corners : lastArgs[i].clipZ > 0 /\ lastArgs[i].z > OccluderDepth)
        => (callerPc # "hung" /\ lastRet = FALSE)

(***************************************************************************)
(* Properties of clipping.                                                 *)
(***************************************************************************)
\* The vertices of candidate i of clip and how many of them are behind the plane.
TriangleOf(clip, i) == <<clip.vertices[3 * i - 2], clip.vertices[3 * i - 1], clip.vertices[3 * i]>>
NegativeCount(clip, i) == Cardinality({k \in 1..3 : TriangleOf(clip, i)[k] < 0})

\* The triangles the pass appended for candidate i: the j-th appended triangle
\* belongs to the j-th live candidate with exactly one vertex behind.
SplitCandidates(before) ==
    {i \in 1..before.numClipTriangles : before.clipTriangles[i] /\ NegativeCount(before, i) = 1}

\* C13: in one pass, a live candidate with exactly one vertex behind the plane
\* leaves two live triangles (itself, modified in place, and one appended), one
\* with exactly two behind leaves one (itself, nothing appended), one with all
\* three behind leaves none (it is marked rejected); nothing else is appended.
C13_ClipCardinality ==
    lastOp = "ClipVertices" =>
        LET before == lastArgs
            after == lastRet
        IN  /\ after.numClipTriangles
                    = before.numClipTriangles + Cardinality(SplitCandidates(before))
            /\ Len(after.clipTriangles) = after.numClipTriangles
            /\ \A i \in (before.numClipTriangles + 1)..after.numClipTriangles :
                    after.clipTriangles[i]
            /\ \A i \in 1..before.numClipTriangles :
                    /\ ~before.clipTriangles[i] =>
                            (~after.clipTriangles[i] /\ TriangleOf(after, i) = TriangleOf(before, i))
                    /\ before.clipTriangles[i] =>
                            /\ after.clipTriangles[i] = (NegativeCount(before, i) < 3)
                            /\ NegativeCount(before, i) \in {1, 2} =>
                                    TriangleOf(after, i) # TriangleOf(before, i)
                            /\ NegativeCount(before, i) = 0 =>
                                    TriangleOf(after, i) = TriangleOf(before, i)

\* A pass over two live candidates, one with one vertex behind and one with
\* all three: three triangles afterwards, the second rejected.
C13_Witness ==
    /\ lastOp = "ClipVertices"
    /\ lastArgs.numClipTriangles = 2
    /\ lastArgs.clipTriangles = <<TRUE, TRUE>>
    /\ NegativeCount(lastArgs, 1) = 1
    /\ NegativeCount(lastArgs, 2) = 3
    /\ lastRet.numClipTriangles = 3
    /\ lastRet.clipTriangles = <<TRUE, FALSE, TRUE>>

(***************************************************************************)
(* Properties of rasterization.                                            *)
(***************************************************************************)
\* The triangles submitted since the last Reset(), as a set: the order of
\* the batches and of the triangles inside them is forgotten.
SubmittedTriangles ==
    UNION {{generateTrianglesTasks[b].batch[k] : k \in 1..Len(generateTrianglesTasks[b].batch)} :
                b \in 1..Min(numTriangleBatches, Len(generateTrianglesTasks))}

\* The nearest depth a submitted triangle has at pixel i (relative to
\* buffer), the cleared depth where none covers it.
NearestDepth(i) ==
    SetMin({OCCLUSION_Z_SCALE} \cup
           {tri.z : tri \in {s \in SubmittedTriangles : Covers(Projected(s), 0, height, i)}})

\* C14: once the pipeline has completed, every pixel holds the minimum depth
\* over all submitted triangles covering it, a value that depends on the set
\* of batches alone and not on the order of the AddTriangles calls.
C14_OrderIndependent ==
    HierarchyBuilt =>
        \A i \in 0..(width * height - 1) : BufferRead(i) = NearestDepth(i)

\* Two different batches were drawn, the first submitted holding the nearer
\* triangle at pixel 0 of the last row and the second at pixel 1 of the first.
C14_Witness ==
    /\ HierarchyBuilt
    /\ numTriangleBatches = 2
    /\ generateTrianglesTasks[1].batch[1].z = 3
    /\ generateTrianglesTasks[2].batch[1].z = 5
    /\ BufferRead((height - 1) * width) = 3
    /\ BufferRead(1) = 2

(***************************************************************************)
(* Properties of the frame's bookkeeping.                                  *)
(***************************************************************************)
\* The step in which a call of Reset() returns.
ResetReturns == lastOp = "Reset" /\ callerPc = "pending" /\ callerPc' = "idle"

\* A step of Reset() itself, after its Complete() has returned.
ResetStores == lastOp = "Reset" /\ callerPc \in {"counts", "pending"} /\ callerPc' # callerPc

\* C15: when Reset() returns, the batch count, the count of ready mip levels
\* and both pending counters are zero; its stores leave the sizes, the slice
\* layout, the buffer, the mip chain and the pool of batch slots as they
\* were, and are made only once numPendingRasterizeTasks is zero.
C15_ResetClearsCounters ==
    [][/\ ResetStores =>
            /\ numPendingRasterizeTasks = 0
            /\ UNCHANGED <<sizeVars, generateTrianglesTasks>>
       /\ ResetReturns =>
            /\ numTriangleBatches' = 0
            /\ numReadyMipBuffers' = 0
            /\ numPendingGenerateTasks' = 0
            /\ numPendingRasterizeTasks' = 0]_vars

\* A call of AddTriangles: the only step that increases the batch count.
AddTrianglesStep == numTriangleBatches' = numTriangleBatches + 1

\* C16: the k-th AddTriangles call after a Reset() (k = numTriangleBatches)
\* writes batch slot k, empties its triangle list and its bucket of every
\* active slice, increases the batch count by one and leaves every other slot
\* as it was; the pool grows, by one slot, only when k is the pool's size.
C16_AddTrianglesSlot ==
    [][AddTrianglesStep =>
        LET k == numTriangleBatches + 1
            pool == Len(generateTrianglesTasks)
        IN  /\ lastOp' = "AddTriangles"
            /\ Len(generateTrianglesTasks') = (IF k = pool + 1 THEN pool + 1 ELSE pool)
            /\ k <= Len(generateTrianglesTasks')
            /\ generateTrianglesTasks'[k].triangles = <<>>
            /\ \A i \in Slices : i < activeSlices =>
                    generateTrianglesTasks'[k].triangleIndices[i] = <<>>
            /\ \A j \in 1..pool : j # k => generateTrianglesTasks'[j] = generateTrianglesTasks[j]]_vars

\* The first call after a Reset() has reused slot 0 of a pool of two slots and
\* emptied it, while slot 1 still holds the triangles of the frame before.
C16_Witness ==
    /\ lastOp = "AddTriangles"
    /\ numTriangleBatches = 1
    /\ runs = 0
    /\ Len(generateTrianglesTasks) = 2
    /\ generateTrianglesTasks[1].triangles = <<>>
    /\ generateTrianglesTasks[2].triangles # <<>>

(***************************************************************************)
(* Properties of the reads of a query.                                     *)
(***************************************************************************)
\* Level i (counted from 0) is scanned: every coarser level was inconclusive.
LevelScanned(i, rect, z) ==
    \A j \in (i + 1)..(numReadyMipBuffers - 1) : MipLevelVerdict(j, rect, z) = "finer"

\* Every cell and pixel a query for the box reads exists: the cell in the
\* allocated mip level, the pixel in rows [0, height) and columns [0, width).
ReadsInside(vertices) ==
    LET rect == QueryRect(vertices)
        z == QueryDepth(vertices)
    IN  (~BufferIsNull /\ numTriangleBatches # 0 /\ ~CrossesNearPlane(vertices)) =>
            /\ \A i \in 0..(numReadyMipBuffers - 1) :
                    (LevelScanned(i, rect, z) /\ MipReads(i, rect, z) # {}) =>
                        /\ i + 1 <= Len(mipBuffers)
                        /\ \A c \in MipReads(i, rect, z) : c >= 0 /\ c < Len(mipBuffers[i + 1])
            /\ LevelScanned(-1, rect, z) =>
                    \A p \in PixelReads(rect, z) :
                        /\ p[1] >= 0 /\ p[1] < width
                        /\ p[2] >= 0 /\ p[2] < height
                        /\ BufferPos(p[2] * width + p[1]) \in 1..Len(fullBuffer)

\* C17: whatever rectangle the corners of a queried box project to, every mip
\* cell the query reads lies inside an allocated mip level and every pixel
\* inside rows [0, height) and columns [0, width) of the buffer.
C17_QueryReadsInside ==
    [][\A box \in ReadsBoxes : IsVisible(box) => ReadsInside(box)]_vars

(***************************************************************************)
(* Properties of the slices.                                               *)
(***************************************************************************)
\* Slices i and j share no row.
RowsDisjoint(i, j) == endY[i] <= startY[j] \/ endY[j] <= startY[i]

\* The threads that are about to write the rows of a slice.
RasterWriters == {t \in Threads : running[t].kind = "raster" /\ running[t].pc = "work"}

\* C18: the row ranges [startY, endY) of any two distinct active slices are
\* disjoint, and any two raster tasks that run at the same time have distinct
\* slices, so they write no row in common.
C18_SlicesDisjoint ==
    /\ \A i, j \in Slices :
            (i < activeSlices /\ j < activeSlices /\ i # j) => RowsDisjoint(i, j)
    /\ \A t, u \in RasterWriters :
            t # u => (running[t].idx # running[u].idx
                        /\ RowsDisjoint(running[t].idx, running[u].idx))

\* Two raster tasks run at the same time, on two slices of three rows each
\* of a buffer of 17 rows.
C18_Witness ==
    /\ height = 17
    /\ activeSlices = 6
    /\ Cardinality(RasterWriters) = 2
    /\ \A t \in RasterWriters : endY[running[t].idx] - startY[running[t].idx] = 3

(***************************************************************************)
(* Properties of the completion counter.                                   *)
(***************************************************************************)
\* Phases 1 and 2 of a run are under way: a clip/project task is queued or
\* running, or a raster task is queued or has not yet decremented the counter.
PhasesUnderWay ==
    \/ TasksQueued({"gen", "raster"}) # {}
    \/ ThreadsIn({"gen"}, AllPcs) # {}
    \/ ThreadsIn({"raster"}, {"work", "dec"}) # {}

\* C19: from the DrawTriangles() that starts a run until the last raster task
\* of that run has finished, numPendingRasterizeTasks is greater than zero,
\* so IsCompleted() is false throughout phases 1 and 2.
C19_PendingWhileRunning == PhasesUnderWay => (numPendingRasterizeTasks > 0 /\ ~IsCompleted)

\* The window between the last clip/project task's decrement and its store:
\* no clip/project task is pending, no raster task is queued yet, and the
\* counter still holds the 1 that DrawTriangles() stored.
C19_Witness ==
    /\ numPendingGenerateTasks = 0
    /\ ThreadsIn({"gen"}, {"store"}) # {}
    /\ TasksQueued({"raster"}) = {}
    /\ ThreadsIn({"raster"}, AllPcs) = {}
    /\ numPendingRasterizeTasks = 1

(***************************************************************************)
(* Properties of the buckets.                                              *)
(***************************************************************************)
\* Rows [startY, endY) of slice i meet the rows minY..maxY of the triangle.
OverlapsSlice(tri, i) == tri.minY < endY[i] /\ tri.maxY >= startY[i]

\* Index idx is in the bucket of slice i of the batch task.
InBucket(task, i, idx) == \E k \in 1..Len(task.triangleIndices[i]) : task.triangleIndices[i][k] = idx

\* C20: every triangle accepted into a batch of the frame, through the
\* unclipped or the clipped path, is in the bucket of exactly those active
\* slices whose rows [startY, endY) overlap its extent [minY, maxY]; so two
\* triangles of the same extent are in the same buckets whatever their path.
C20_BucketsMatchOverlap ==
    \A b \in 1..Min(numTriangleBatches, Len(generateTrianglesTasks)) :
        \A idx \in 0..(Len(generateTrianglesTasks[b].triangles) - 1) :
            \A i \in Slices : i < activeSlices =>
                (InBucket(generateTrianglesTasks[b], i, idx)
                    <=> OverlapsSlice(generateTrianglesTasks[b].triangles[idx + 1], i))

(***************************************************************************)
(* Properties of the clipping of one triangle.                             *)
(***************************************************************************)
\* C21: whatever planes the input triangle is clipped against, the number of
\* candidates never exceeds 64, so clipTriangles (64 entries) and vertices
\* (192 entries) are written inside their bounds.
C21_ClipArraysInBounds ==
    lastOp \in {"AddTriangle", "ClipVertices"} =>
        /\ lastRet.numClipTriangles <= 64
        /\ Len(lastRet.clipTriangles) <= 64
        /\ Len(lastRet.vertices) <= 64 * 3

\* Six passes that each split every candidate in two: 64 candidates, all live.
C21_Witness ==
    /\ lastOp = "ClipVertices"
    /\ lastRet.plane = 6
    /\ lastRet.numClipTriangles = 64
    /\ Len(lastRet.vertices) = 192
    /\ \A i \in 1..64 : lastRet.clipTriangles[i]

(***************************************************************************)
(* Further properties of the slices.                                       *)
(***************************************************************************)
\* The height the slices were laid out for: the end of the last active slice.
LayoutHeight == endY[activeSlices - 1]

\* C22 as stated: after a successful SetSize the slice height is
\* ceil(height / OCCLUSION_BUFFER_SLICES) + 1 and every two adjacent active
\* slices have exactly one row in common.
C22_SlicesOverlapAsClaimed ==
    (SetSizeSucceeded /\ activeSlices > 0) =>
        /\ sliceHeight = CeilDiv(LayoutHeight, OCCLUSION_BUFFER_SLICES) + 1
        /\ \A i \in Slices : i + 1 < activeSlices => endY[i] = startY[i + 1] + 1

\* C22, amended: after a successful SetSize with an allocated buffer the slice
\* height is floor(height / OCCLUSION_BUFFER_SLICES) + 1, every active slice
\* but the last has that many rows, and every two adjacent active slices abut:
\* the one ends at the row the next starts at, with no row in common.
C22_SlicesAbut ==
    (SetSizeSucceeded /\ activeSlices > 0) =>
        /\ sliceHeight = (LayoutHeight \div OCCLUSION_BUFFER_SLICES) + 1
        /\ \A i \in Slices : i + 1 < activeSlices =>
                /\ endY[i] = startY[i + 1]
                /\ endY[i] - startY[i] = sliceHeight

\* A buffer of 17 rows: six slices of 3 rows (the last of 2), where
\* ceil(17 / 8) + 1 would be 4.
C22_Witness ==
    /\ SetSizeSucceeded
    /\ height = 17
    /\ activeSlices = 6
    /\ sliceHeight = 3
    /\ endY[0] = 3 /\ startY[1] = 3
    /\ endY[5] = 17

(***************************************************************************)
(* Properties of the clearing of the buffer.                               *)
(***************************************************************************)
\* No triangle of the frame's batches survived clipping and culling.
NoTriangleSurvived ==
    \A b \in 1..Min(numTriangleBatches, Len(generateTrianglesTasks)) :
        generateTrianglesTasks[b].triangles = <<>>

\* C23: the active slices together cover every row of [0, height), and after
\* a pipeline run in which no triangle survived every pixel of rows
\* [0, height) and columns [0, width) holds the sentinel depth.
C23_ClearedToSentinel ==
    ~BufferIsNull =>
        /\ \A y \in 0..(height - 1) :
                \E i \in Slices : i < activeSlices /\ startY[i] <= y /\ y < endY[i]
        /\ (HierarchyBuilt /\ NoTriangleSurvived) =>
                \A i \in 0..(width * height - 1) : BufferRead(i) = OCCLUSION_Z_SCALE

(***************************************************************************)
(* Properties of the count of ready mip levels.                            *)
(***************************************************************************)
\* C24: in every reachable state numReadyMipBuffers is at most the number
\* of allocated mip levels, so the loop of IsVisible starts at a level that
\* exists.
C24_ReadyWithinChain == numReadyMipBuffers <= Len(mipBuffers)

(***************************************************************************)
(* Properties of the hierarchy build among the other tasks.                *)
(***************************************************************************)
\* C25: while a thread executes the hierarchy build no thread executes a
\* raster task or a clip/project task, and at most one hierarchy build is
\* queued or running.
C25_HierarchyAlone ==
    /\ ThreadsIn({"hier"}, AllPcs) # {} => ThreadsIn({"gen", "raster"}, AllPcs) = {}
    /\ Cardinality(TasksQueued({"hier"})) + Cardinality(ThreadsIn({"hier"}, AllPcs)) <= 1

(***************************************************************************)
(* Properties of the hierarchy as an accelerator of the query.             *)
(***************************************************************************)
\* Every mip level is ready and was built from the buffer as it is now.
AllLevelsReady == HierarchyBuilt /\ numReadyMipBuffers = Len(mipBuffers)

\* The query for the box gets as far as the scan of lines 254-302.
ReachesScan(vertices) == ~BufferIsNull /\ numTriangleBatches # 0 /\ ~CrossesNearPlane(vertices)

\* C26: with all mip levels ready and built from the current buffer, the
\* answer of IsVisible for a box equals the answer of the pixel-level scan
\* alone over the box's rectangle with the box's depth threshold.
C26_HierarchyOnlyAccelerates ==
    [][\A box \in OccBoxes :
        (IsVisible(box) /\ AllLevelsReady /\ ReachesScan(box)) =>
            IsVisibleVerdict(box) = PixelVerdict(QueryRect(box), QueryDepth(box))]_vars

(***************************************************************************)
(* Properties of the addressing of the mip levels.                         *)
(***************************************************************************)
\* The row stride IsVisible uses for level i (counted from 0), line 258.
QueryStride(i) == width \div (2 ^ (i + 1))

\* The width the hierarchy task writes level i with: the buffer's width
\* halved i + 1 times, rounding up each time (lines 693 and 739).
BuilderWidth(i) == MipSizes(width, height)[i + 1][1]

\* C27: for every size SetSize accepts and every mip level, the row stride of
\* IsVisible equals the width the hierarchy task wrote the level with.
C27_StrideMatchesBuilder ==
    (SetSizeSucceeded /\ ~BufferIsNull) =>
        \A i \in 0..(Len(mipBuffers) - 1) : QueryStride(i) = BuilderWidth(i)

(***************************************************************************)
(* Properties of the reads of the hierarchy build.                         *)
(***************************************************************************)
\* Lines 703-724 and 749-770: the elements read for cell (x, y) of a level
\* from a source that is srcWidth x srcHeight, as <<column, row>>; src[1] and
\* src2[1] are read whether or not column 2x + 1 exists.
HierarchyReads(srcWidth, srcHeight, x, y) ==
    {<<2 * x, 2 * y>>, <<2 * x + 1, 2 * y>>} \cup
    (IF y * 2 + 1 < srcHeight THEN {<<2 * x, 2 * y + 1>>, <<2 * x + 1, 2 * y + 1>>} ELSE {})

\* Every element read for the cells of a level lies inside its source.
ReadsWithinSource(srcWidth, srcHeight) ==
    \A x \in 0..(((srcWidth + 1) \div 2) - 1), y \in 0..(((srcHeight + 1) \div 2) - 1) :
        \A p \in HierarchyReads(srcWidth, srcHeight, x, y) :
            p[1] < srcWidth /\ p[2] < srcHeight

\* C28: for every size SetSize accepts the hierarchy build reads only pixels
\* of rows [0, height) and columns [0, width) and only cells inside the
\* width x height of the level before; with an odd source width the last
\* cell of a row reads nothing of the next row or past the end.
C28_BuildReadsInside ==
    (SetSizeSucceeded /\ ~BufferIsNull) =>
        /\ ReadsWithinSource(width, height)
        /\ \A i \in 1..(Len(MipSizes(width, height)) - 1) :
                ReadsWithinSource(MipSizes(width, height)[i][1], MipSizes(width, height)[i][2])

(***************************************************************************)
(* Properties of the query on an empty frame.                              *)
(***************************************************************************)
\* Lines 195-302: what a query for the box reads, mip cells as
\* <<level, index>> and pixels as <<column, row>>; nothing when it returns
\* at line 196, 213 or 224.
QueryReads(vertices) ==
    LET rect == QueryRect(vertices)
        z == QueryDepth(vertices)
    IN  IF ~ReachesScan(vertices) THEN {}
        ELSE UNION {{<<i, c>> : c \in MipReads(i, rect, z)} :
                        i \in {l \in 0..(numReadyMipBuffers - 1) : LevelScanned(l, rect, z)}}
             \cup (IF LevelScanned(-1, rect, z) THEN PixelReads(rect, z) ELSE {})

\* C29: while no buffer is allocated or no batch was added since the last
\* Reset(), IsVisible answers visible for every box and reads neither the
\* buffer nor the mip levels; and a DrawTriangles() with no batch queues no
\* task and leaves both pending counters as they are.
C29_EmptyFrameVisible ==
    [][/\ \A box \in ReadsBoxes :
            (IsVisible(box) /\ (BufferIsNull \/ numTriangleBatches = 0)) =>
                /\ lastRet' = TRUE
                /\ callerPc' = "idle"
                /\ QueryReads(box) = {}
       /\ (DrawTriangles /\ numTriangleBatches = 0) =>
            /\ lastRet' = FALSE
            /\ UNCHANGED <<workQueue, numPendingGenerateTasks, numPendingRasterizeTasks, runs>>]_vars

\* After a frame with an occluder and a Reset(), with no batch added since,
\* a query for a box that lies behind the depths still in the buffer has
\* answered visible.
C29_Witness ==
    /\ lastOp = "IsVisible"
    /\ lastRet = TRUE
    /\ lastArgs = QueryBox(0, 0, 0, 0, 0, 0, 1000, 1000)
    /\ numTriangleBatches = 0
    /\ NoTaskLeft
    /\ ~BufferIsNull
    /\ BufferRead(0) = 5
    /\ PixelVerdict(QueryRect(lastArgs), QueryDepth(lastArgs)) = "hidden"

====
